---- MODULE Spec2Model ----
(***************************************************************************)
(* Model of build_careers.py: the key normalizer norm, the two extractors  *)
(* parse_ooh and load_oews, the education cost estimator edu_cost and the  *)
(* aggregation loop of main.                                               *)
(*                                                                         *)
(* A Python str is a sequence of one-character strings.  A Python value    *)
(* that may be None, a str or a float is a record                          *)
(* [kind, sign, mant, exp, str].                                           *)
(* A dict is a function whose domain is its key set.                       *)
(***************************************************************************)
EXTENDS Integers, Sequences, FiniteSets, TLC

VARIABLES
  mode,       \* which entry point this behaviour exercises
  pc,         \* position inside that entry point
  s,          \* norm: the argument
  key,        \* norm: the value returned for s
  key2,       \* norm: the value returned for key
  entry_edu,  \* edu_cost: the argument
  cost,       \* edu_cost: the value returned
  occs,       \* parse_ooh: the occupation elements iterated so far
  ooh,        \* parse_ooh: the dict out
  columns,    \* load_oews: df.columns (raw, then normalized at line 79)
  title_col,  \* load_oews: resolved title column name
  p25_col,    \* load_oews: resolved 25th percentile column name or None
  med_col,    \* load_oews: resolved median column name or None
  rows,       \* load_oews: the rows iterated so far
  wages,      \* load_oews: the dict out
  raised,     \* TRUE when the entry point ended with an exception
  targets,    \* main: the target title list
  careers     \* main: the list careers

vars == <<mode, pc, s, key, key2, entry_edu, cost, occs, ooh, columns,
          title_col, p25_col, med_col, rows, wages, raised, targets, careers>>

---------------------------------------------------------------------------
(* Bounds *)

MaxLen == 4
MaxFrags == 2
MaxOccs == 2
MaxRows == 2
MaxTargets == 2

---------------------------------------------------------------------------
(* Python values *)

None == [kind |-> "none", sign |-> 0, mant |-> <<>>, exp |-> 0, str |-> <<>>]
NaN == [kind |-> "nan", sign |-> 0, mant |-> <<>>, exp |-> 0, str |-> <<>>]
Str(x) == [kind |-> "str", sign |-> 0, mant |-> <<>>, exp |-> 0, str |-> x]

\* The finite double sign * mant * 2^exp.  mant is an odd integer written in
\* binary, most significant bit first; zero is mant = <<>> with exp = 0 (sign
\* tells 0.0 from -0.0).  Every finite double has exactly one such record.
Double(sign, mant, exp) ==
  [kind |-> "num", sign |-> sign, mant |-> mant, exp |-> exp, str |-> <<>>]

\* float("inf") for sign = 1, float("-inf") for sign = -1
Inf(sign) == [kind |-> "inf", sign |-> sign, mant |-> <<>>, exp |-> 0, str |-> <<>>]

Abs(n) == IF n < 0 THEN -n ELSE n

\* n >= 0 in binary, most significant bit first
RECURSIVE Bits(_)
Bits(n) == IF n = 0 THEN <<>> ELSE Append(Bits(n \div 2), n % 2)

DropLeadingZeros(b) ==
  IF \A j \in DOMAIN b : b[j] = 0 THEN <<>>
  ELSE SubSeq(b, CHOOSE j \in DOMAIN b : b[j] # 0 /\ \A i \in 1..(j - 1) : b[i] = 0, Len(b))

DropTrailingZeros(b) ==
  IF \A j \in DOMAIN b : b[j] = 0 THEN <<>>
  ELSE SubSeq(b, 1, CHOOSE j \in DOMAIN b : b[j] # 0 /\ \A i \in (j + 1)..Len(b) : b[i] = 0)

\* the record of sign * b * 2^e for any bit sequence b
Canon(sign, b, e) ==
  LET m == DropTrailingZeros(DropLeadingZeros(b))
  IN IF m = <<>> THEN Double(sign, <<>>, 0)
     ELSE Double(sign, m, e + Len(DropLeadingZeros(b)) - Len(m))

\* the float of the integer n
Num(n) == Canon(IF n < 0 THEN -1 ELSE 1, Bits(Abs(n)), 0)

\* bool(v) for v a str or None
Truthy(v) == v.kind = "str" /\ v.str # <<>>

\* a or b
PyOr(a, b) == IF Truthy(a) THEN a ELSE b

EmptyDict == [k \in {} |-> None]

\* d[k] = v
DictSet(d, k, v) == [x \in (DOMAIN d) \cup {k} |-> IF x = k THEN v ELSE d[x]]

\* d.get(k, dflt)
DictGet(d, k, dflt) == IF k \in DOMAIN d THEN d[k] ELSE dflt

---------------------------------------------------------------------------
(* Characters and strings *)

UpperLetters == <<"A","B","C","D","E","F","G","H","I","J","K","L","M",
                  "N","O","P","Q","R","S","T","U","V","W","X","Y","Z">>
LowerLetters == <<"a","b","c","d","e","f","g","h","i","j","k","l","m",
                  "n","o","p","q","r","s","t","u","v","w","x","y","z">>
Digits == <<"0","1","2","3","4","5","6","7","8","9">>

\* GREEK UPSILON WITH HOOK SYMBOL, one character: an upper-case letter (category
\* Lu, str.isupper() is True) that str.lower() leaves unchanged
UpsilonHook == "U+03D2"

\* GREEK CAPITAL LETTER SIGMA, GREEK SMALL LETTER SIGMA and GREEK SMALL LETTER
\* FINAL SIGMA: str.lower() turns the capital into one or the other small
\* letter by its place in the word
CapitalSigma == "U+03A3"
SmallSigma == "U+03C3"
FinalSigma == "U+03C2"

\* LATIN CAPITAL LETTER I WITH DOT ABOVE, whose lower-case form is the two
\* characters i and COMBINING DOT ABOVE
DottedI == "U+0130"
CombiningDot == "U+0307"

\* GRAVE ACCENT, the ASCII character
GraveAccent == "U+0060"

IsAsciiUpper(c) == \E i \in DOMAIN UpperLetters : UpperLetters[i] = c

\* str.isupper() of one character
IsUpper(c) == IsAsciiUpper(c) \/ c \in {UpsilonHook, CapitalSigma, DottedI}
IsLowerLetter(c) == \E i \in DOMAIN LowerLetters : LowerLetters[i] = c
IsDigit(c) == \E i \in DOMAIN Digits : Digits[i] = c

\* str.isspace / the regex class \s
IsSpace(c) == c \in {" ", "\t", "\n", "\r", "\f"}

LowerChar(c) ==
  IF IsAsciiUpper(c)
    THEN LowerLetters[CHOOSE i \in DOMAIN UpperLetters : UpperLetters[i] = c]
    ELSE c

\* Unicode properties Cased and Case_Ignorable, on ASCII and the characters
\* named above
IsCased(c) ==
  \/ IsAsciiUpper(c) \/ IsLowerLetter(c)
  \/ c \in {UpsilonHook, CapitalSigma, SmallSigma, FinalSigma, DottedI}

IsCaseIgnorable(c) == c \in {"'", ".", ":", "^", GraveAccent, CombiningDot}

\* The capital sigma at x[i] ends a word: going back over case-ignorable
\* characters there is a cased letter, going forward over them there is none.
IsFinalSigma(x, i) ==
  /\ \E j \in 1..(i - 1) :
       /\ IsCased(x[j])
       /\ \A k \in (j + 1)..(i - 1) : IsCaseIgnorable(x[k])
  /\ ~\E j \in (i + 1)..Len(x) :
       /\ IsCased(x[j])
       /\ \A k \in (i + 1)..(j - 1) : IsCaseIgnorable(x[k])

\* the lower-case form of the character at x[i], one or two characters
LowerAt(x, i) ==
  IF x[i] = CapitalSigma THEN <<IF IsFinalSigma(x, i) THEN FinalSigma ELSE SmallSigma>>
  ELSE IF x[i] = DottedI THEN <<"i", CombiningDot>>
  ELSE <<LowerChar(x[i])>>

\* the lower-case forms of x[lo..hi], one after the other
RECURSIVE LowerRange(_, _, _)
LowerRange(x, lo, hi) ==
  IF lo > hi THEN <<>>
  ELSE IF lo = hi THEN LowerAt(x, lo)
  ELSE LowerRange(x, lo, (lo + hi) \div 2) \o LowerRange(x, ((lo + hi) \div 2) + 1, hi)

\* str.lower()
Lower(x) == LowerRange(x, 1, Len(x))

\* the ASCII letters of x in lower case, as float() reads its text
AsciiLower(x) == [i \in DOMAIN x |-> LowerChar(x[i])]

RECURSIVE LStrip(_)
LStrip(x) ==
  IF x # <<>> /\ IsSpace(Head(x)) THEN LStrip(Tail(x)) ELSE x

RECURSIVE RStrip(_)
RStrip(x) ==
  IF x # <<>> /\ IsSpace(x[Len(x)]) THEN RStrip(SubSeq(x, 1, Len(x) - 1)) ELSE x

\* str.strip()
Strip(x) == RStrip(LStrip(x))

\* re.sub(r"\s+", " ", x): every maximal run of whitespace becomes one space
RECURSIVE ReSubWs(_)
ReSubWs(x) ==
  IF x = <<>> THEN <<>>
  ELSE IF IsSpace(Head(x))
    THEN <<" ">> \o ReSubWs(LStrip(x))
    ELSE <<Head(x)>> \o ReSubWs(Tail(x))

\* Mutant of norm: the run of whitespace is replaced character by character
norm_NoCollapse(x) ==
  LET t == Strip(Lower(x))
  IN [i \in DOMAIN t |-> IF IsSpace(t[i]) THEN " " ELSE t[i]]

norm(x) == ReSubWs(Strip(Lower(x)))

\* sub in x
Contains(sub, x) ==
  \E i \in 0..(Len(x) - Len(sub)) : SubSeq(x, i + 1, i + Len(sub)) = sub

\* all strings over alphabet A of length at most n
RECURSIVE StringsUpTo(_, _)
StringsUpTo(A, n) ==
  IF n = 0 THEN {<<>>}
  ELSE LET shorter == StringsUpTo(A, n - 1)
       IN shorter \cup {Append(x, c) : x \in shorter, c \in A}

---------------------------------------------------------------------------
(* edu_cost *)

MI_PUBLIC_2YR == 0
MI_PUBLIC_4YR == 0

kw_associate == <<"a","s","s","o","c","i","a","t","e">>
kw_bachelor == <<"b","a","c","h","e","l","o","r">>
kw_master == <<"m","a","s","t","e","r">>
kw_doctoral == <<"d","o","c","t","o","r","a","l">>
kw_professional == <<"p","r","o","f","e","s","s","i","o","n","a","l">>
kw_postsecondary == <<"p","o","s","t","s","e","c","o","n","d","a","r","y"," ",
                      "n","o","n","d","e","g","r","e","e">>
kw_high_school == <<"h","i","g","h"," ","s","c","h","o","o","l">>
kw_no_formal == <<"n","o"," ","f","o","r","m","a","l">>

NoCost == [kind |-> "none", years |-> 0, total_tuition_fees |-> 0, note |-> ""]
Cost(y, c, n) == [kind |-> "cost", years |-> y, total_tuition_fees |-> c, note |-> n]

\* Mutant of edu_cost: the master rule is tested before the bachelor rule
edu_cost_MasterFirst(v) ==
  LET e == Lower(PyOr(v, Str(<<>>)).str)
  IN IF e = <<>> THEN NoCost
     ELSE IF Contains(kw_associate, e)
       THEN Cost(2, MI_PUBLIC_2YR * 2, "Community college estimate (tuition+fees only).")
     ELSE IF Contains(kw_master, e)
       THEN Cost(6, MI_PUBLIC_4YR * 6, "Very rough estimate (tuition+fees only).")
     ELSE IF Contains(kw_bachelor, e)
       THEN Cost(4, MI_PUBLIC_4YR * 4, "Public 4-year in-state estimate (tuition+fees only).")
     ELSE IF Contains(kw_doctoral, e) \/ Contains(kw_professional, e)
       THEN Cost(8, MI_PUBLIC_4YR * 8, "Very rough estimate (tuition+fees only).")
     ELSE IF Contains(kw_postsecondary, e)
       THEN Cost(1, MI_PUBLIC_2YR, "Certificate/trade estimate (tuition+fees only).")
     ELSE IF Contains(kw_high_school, e) \/ Contains(kw_no_formal, e)
       THEN Cost(0, 0, "No college required; training may still cost money.")
     ELSE NoCost

edu_cost(v) ==
  LET e == Lower(PyOr(v, Str(<<>>)).str)
  IN IF e = <<>> THEN NoCost
     ELSE IF Contains(kw_associate, e)
       THEN Cost(2, MI_PUBLIC_2YR * 2, "Community college estimate (tuition+fees only).")
     ELSE IF Contains(kw_bachelor, e)
       THEN Cost(4, MI_PUBLIC_4YR * 4, "Public 4-year in-state estimate (tuition+fees only).")
     ELSE IF Contains(kw_master, e)
       THEN Cost(6, MI_PUBLIC_4YR * 6, "Very rough estimate (tuition+fees only).")
     ELSE IF Contains(kw_doctoral, e) \/ Contains(kw_professional, e)
       THEN Cost(8, MI_PUBLIC_4YR * 8, "Very rough estimate (tuition+fees only).")
     ELSE IF Contains(kw_postsecondary, e)
       THEN Cost(1, MI_PUBLIC_2YR, "Certificate/trade estimate (tuition+fees only).")
     ELSE IF Contains(kw_high_school, e) \/ Contains(kw_no_formal, e)
       THEN Cost(0, 0, "No college required; training may still cost money.")
     ELSE NoCost

---------------------------------------------------------------------------
(* parse_ooh *)

\* One iteration of the loop over root.findall(".//occupation").  occ holds
\* the results of findtext for the five child elements: None when the child
\* is missing, its text otherwise.
parse_ooh_KeepFirst(out, occ) ==
  LET title == Strip(PyOr(occ.title, Str(<<>>)).str)
      summary == IF Truthy(occ.summary)
                   THEN Str(ReSubWs(Strip(occ.summary.str)))
                   ELSE occ.summary
      edu0 == PyOr(PyOr(occ.education, occ.entry_level_education), Str(<<>>))
      edu == IF Truthy(edu0) THEN Str(ReSubWs(Strip(edu0.str))) ELSE None
      url0 == PyOr(occ.url, Str(<<>>))
      url == IF Truthy(url0) THEN Str(Strip(url0.str)) ELSE None
  IN IF title = <<>> \/ norm(title) \in DOMAIN out
       THEN out
       ELSE DictSet(out, norm(title),
                    [title |-> title, summary |-> summary,
                     entry_education |-> edu, ooh_url |-> url])

parse_ooh_step(out, occ) ==
  LET title == Strip(PyOr(occ.title, Str(<<>>)).str)
      summary == IF Truthy(occ.summary)
                   THEN Str(ReSubWs(Strip(occ.summary.str)))
                   ELSE occ.summary
      edu0 == PyOr(PyOr(occ.education, occ.entry_level_education), Str(<<>>))
      edu == IF Truthy(edu0) THEN Str(ReSubWs(Strip(edu0.str))) ELSE None
      url0 == PyOr(occ.url, Str(<<>>))
      url == IF Truthy(url0) THEN Str(Strip(url0.str)) ELSE None
  IN IF title = <<>>
       THEN out
       ELSE DictSet(out, norm(title),
                    [title |-> title, summary |-> summary,
                     entry_education |-> edu, ooh_url |-> url])

\* The whole call: the loop over all elements, starting from out = {}
RECURSIVE parse_ooh(_)
parse_ooh(elems) ==
  IF elems = <<>> THEN EmptyDict
  ELSE parse_ooh_step(parse_ooh(SubSeq(elems, 1, Len(elems) - 1)), elems[Len(elems)])

---------------------------------------------------------------------------
(* load_oews *)

kw_occupation_title == <<"o","c","c","u","p","a","t","i","o","n"," ","t","i","t","l","e">>
kw_annual_25th_percentile == <<"a","n","n","u","a","l"," ","2","5","t","h"," ","p","e","r","c","e","n","t","i","l","e">>
kw_25 == <<"2","5">>
kw_annual == <<"a","n","n","u","a","l">>
kw_annual_median == <<"a","n","n","u","a","l"," ","m","e","d","i","a","n">>
kw_median == <<"m","e","d","i","a","n">>

\* df.columns = [norm(str(c)) for c in df.columns]
NormColumns(cols) == [j \in DOMAIN cols |-> norm(cols[j])]

\* next((c for c in cols if ...), dflt): the index of the first column among
\* those that satisfy the condition, 0 when the generator is empty
FirstIndex(hits) ==
  IF hits = {} THEN 0 ELSE CHOOSE j \in hits : \A m \in hits : j <= m

IsTitleCol(c) == Contains(kw_occupation_title, c)

IsP25Col(c) ==
  Contains(kw_annual_25th_percentile, c) \/ (Contains(kw_25, c) /\ Contains(kw_annual, c))

IsMedCol(c) ==
  Contains(kw_annual_median, c) \/ (Contains(kw_median, c) /\ Contains(kw_annual, c))

ResolveTitleCol(cols) ==
  LET j == FirstIndex({i \in DOMAIN cols : IsTitleCol(cols[i])}) IN IF j = 0 THEN Str(cols[1]) ELSE Str(cols[j])

ResolveP25Col(cols) ==
  LET j == FirstIndex({i \in DOMAIN cols : IsP25Col(cols[i])}) IN IF j = 0 THEN None ELSE Str(cols[j])

ResolveMedCol(cols) ==
  LET j == FirstIndex({i \in DOMAIN cols : IsMedCol(cols[i])}) IN IF j = 0 THEN None ELSE Str(cols[j])

\* r[name] / r.get(name): the cell of row r under the column called name.
\* The column names of one dataset are pairwise distinct after normalization.
CellOf(cols, r, name) == r[CHOOSE j \in DOMAIN cols : cols[j] = name]

\* pd.notna
NotNa(c) == c.kind \notin {"nan", "none"}

DigitVal(c) == (CHOOSE j \in DOMAIN Digits : Digits[j] = c) - 1

RECURSIVE DigitsVal(_)
DigitsVal(x) ==
  IF x = <<>> THEN 0 ELSE 10 * DigitsVal(SubSeq(x, 1, Len(x) - 1)) + DigitVal(x[Len(x)])

\* index of the first c in x, 0 when there is none
IndexOf(x, c) ==
  IF \E j \in DOMAIN x : x[j] = c
    THEN CHOOSE j \in DOMAIN x : x[j] = c /\ \A m \in 1..(j - 1) : x[m] # c
    ELSE 0

\* digitpart of the float grammar: digits, single underscores between them
IsDigitPart(d) ==
  /\ d # <<>>
  /\ IsDigit(d[1]) /\ IsDigit(d[Len(d)])
  /\ \A j \in DOMAIN d : IsDigit(d[j]) \/ d[j] = "_"
  /\ \A j \in 1..(Len(d) - 1) : ~(d[j] = "_" /\ d[j + 1] = "_")

OnlyDigits(d) == SelectSeq(d, LAMBDA c : c # "_")

txt_inf == <<"i","n","f">>
txt_infinity == <<"i","n","f","i","n","i","t","y">>
txt_nan == <<"n","a","n">>

\* The text handed to float(), taken apart as float() reads it: whitespace
\* stripped, case ignored, then [sign] (inf | infinity | nan | number) with
\* number = digitpart ["." [digitpart]] [exponent] | "." digitpart [exponent]
\* and exponent = "e" [sign] digitpart.
FloatText(x) ==
  LET t == AsciiLower(Strip(x))
      signed == t # <<>> /\ t[1] \in {"+", "-"}
      b == IF signed THEN Tail(t) ELSE t
      ie == IndexOf(b, "e")
      mant == IF ie = 0 THEN b ELSE SubSeq(b, 1, ie - 1)
      ex == IF ie = 0 THEN <<>> ELSE SubSeq(b, ie + 1, Len(b))
      exsigned == ex # <<>> /\ ex[1] \in {"+", "-"}
      id == IndexOf(mant, ".")
  IN [neg |-> signed /\ t[1] = "-",
      body |-> b,
      hasExp |-> ie # 0,
      exNeg |-> exsigned /\ ex[1] = "-",
      exDigits |-> IF exsigned THEN Tail(ex) ELSE ex,
      hasDot |-> id # 0,
      ip |-> IF id = 0 THEN mant ELSE SubSeq(mant, 1, id - 1),
      fp |-> IF id = 0 THEN <<>> ELSE SubSeq(mant, id + 1, Len(mant))]

IsFloatNumber(p) ==
  /\ IF p.hasDot
       THEN /\ p.ip = <<>> \/ IsDigitPart(p.ip)
            /\ p.fp = <<>> \/ IsDigitPart(p.fp)
            /\ ~(p.ip = <<>> /\ p.fp = <<>>)
       ELSE IsDigitPart(p.ip)
  /\ p.hasExp => IsDigitPart(p.exDigits)

\* float(c) raises ValueError: c is text that is not a float literal
FloatRaises(c) ==
  c.kind = "str" /\ LET p == FloatText(c.str)
                    IN ~(p.body \in {txt_inf, txt_infinity, txt_nan} \/ IsFloatNumber(p))

\* Natural numbers of any size, for the exact decimal to binary conversion:
\* a sequence of limbs in base Base, least significant first, no high zero
\* limb (zero is <<>>).
Base == 10000

Limb(x, i) == IF i \in DOMAIN x THEN x[i] ELSE 0

\* x * 2: the carry out of a limb is 1 exactly when the limb is Base / 2 or more
BigDouble(x) ==
  DropTrailingZeros([i \in 1..(Len(x) + 1) |->
    ((2 * Limb(x, i)) % Base) + (IF Limb(x, i - 1) >= Base \div 2 THEN 1 ELSE 0)])

\* x * 10: every decimal digit moves up one place
BigTimes10(x) ==
  DropTrailingZeros([i \in 1..(Len(x) + 1) |->
    ((Limb(x, i) % (Base \div 10)) * 10) + (Limb(x, i - 1) \div (Base \div 10))])

\* x * 2^n
RECURSIVE BigMulPow2(_, _)
BigMulPow2(x, n) ==
  IF n = 0 \/ x = <<>> THEN x
  ELSE IF n = 1 THEN BigDouble(x)
  ELSE BigMulPow2(BigMulPow2(x, n \div 2), n - n \div 2)

\* x * 10^n: n \div 4 whole limbs, then n % 4 digits
BigMulPow10(x, n) ==
  LET k == n \div 4
      y == IF x = <<>> THEN x ELSE [i \in 1..(Len(x) + k) |-> IF i <= k THEN 0 ELSE x[i - k]]
  IN CASE n % 4 = 0 -> y
       [] n % 4 = 1 -> BigTimes10(y)
       [] n % 4 = 2 -> BigTimes10(BigTimes10(y))
       [] n % 4 = 3 -> BigTimes10(BigTimes10(BigTimes10(y)))

\* the number written by the decimal digit values d: one limb for every four
BigOfDigits(d) ==
  DropTrailingZeros([i \in 1..((Len(d) + 3) \div 4) |->
    Limb(d, Len(d) - 4 * i + 4) + 10 * Limb(d, Len(d) - 4 * i + 3)
      + 100 * Limb(d, Len(d) - 4 * i + 2) + 1000 * Limb(d, Len(d) - 4 * i + 1)])

\* the low i limbs of x are less than the low i limbs of y
LowLess(x, y, i) ==
  \E j \in 1..i : /\ Limb(x, j) < Limb(y, j)
                  /\ \A k \in (j + 1)..i : Limb(x, k) = Limb(y, k)

\* x < y
BigLess(x, y) ==
  IF Len(x) # Len(y) THEN Len(x) < Len(y) ELSE LowLess(x, y, Len(x))

\* x - y, for y <= x: limb i borrows exactly when the limbs below it are less
BigSub(x, y) ==
  DropTrailingZeros([i \in DOMAIN x |->
    LET v == x[i] - Limb(y, i) - (IF LowLess(x, y, i - 1) THEN 1 ELSE 0)
    IN IF v < 0 THEN v + Base ELSE v])

\* One more binary digit of rem / den after the point, for rem < den
BinaryDigit(st, den) ==
  LET t == BigDouble(st.rem)
  IN IF BigLess(t, den)
       THEN [rem |-> t, bits |-> Append(st.bits, 0)]
       ELSE [rem |-> BigSub(t, den), bits |-> Append(st.bits, 1)]

\* n more binary digits
RECURSIVE BinaryDigits(_, _, _)
BinaryDigits(st, den, n) ==
  IF st.rem = <<>> THEN [rem |-> <<>>, bits |-> st.bits \o [i \in 1..n |-> 0]]
  ELSE IF n = 0 THEN st
  ELSE IF n = 1 THEN BinaryDigit(st, den)
  ELSE BinaryDigits(BinaryDigits(st, den, n \div 2), den, n - n \div 2)

\* b + 1 for a bit sequence b
BitsInc(b) ==
  IF \A j \in DOMAIN b : b[j] = 1 THEN <<1>> \o [j \in DOMAIN b |-> 0]
  ELSE LET z == CHOOSE j \in DOMAIN b : b[j] = 0 /\ \A i \in (j + 1)..Len(b) : b[i] = 1
       IN [j \in DOMAIN b |-> IF j < z THEN b[j] ELSE IF j = z THEN 1 ELSE 0]

\* The steps of float() on a decimal, last step first.

\* 2^1024 and more is infinite
Overflowing(d) == IF Len(d.mant) + d.exp > 1024 THEN Inf(d.sign) ELSE d

\* the mantissa bits q rounded to nearest, ties to even, by what was cut off:
\* half of twice / den of a unit in the last place
RoundBits(q, twice, den) ==
  IF BigLess(den, twice) \/ (twice = den /\ q # <<>> /\ q[Len(q)] = 1)
    THEN BitsInc(q)
    ELSE q

FloatRounded(sign, st, den, e) ==
  Overflowing(Canon(sign, RoundBits(st.bits, BigDouble(st.rem), den), e))

\* value = num / den * 2^bexp with num / den in [1/2, 1); a double of that
\* magnitude has nbits mantissa bits (none at all below 2^-1075)
FloatBits(sign, num, den, bexp, nbits) ==
  IF nbits < 0 THEN Double(sign, <<>>, 0)
  ELSE FloatRounded(sign, BinaryDigits([rem |-> num, bits |-> <<>>], den, nbits),
                    den, bexp - nbits)

\* 53 mantissa bits, fewer below 2^-1022 where doubles are multiples of 2^-1074
MantissaBits(bexp) == IF bexp + 1074 < 53 THEN bexp + 1074 ELSE 53

\* value = num / den * 2^low with num / den in [1, 64): the number of
\* doublings of den that brings num / den into [1/2, 1)
Doublings(num, den) ==
  CHOOSE j \in 1..6 : /\ BigLess(num, BigMulPow2(den, j))
                      /\ ~BigLess(num, BigMulPow2(den, j - 1))

FloatScaled(sign, num, den, low, k) ==
  FloatBits(sign, num, BigMulPow2(den, k), low + k, MantissaBits(low + k))

FloatRatio(sign, num, den, low) ==
  FloatScaled(sign, num, den, low, Doublings(num, den))

Max0(n) == IF n > 0 THEN n ELSE 0

\* value = m * 10^e >= 2^low
FloatDecimal(sign, m, e, low) ==
  FloatRatio(sign, BigMulPow2(BigMulPow10(m, Max0(e)), Max0(-low)),
                   BigMulPow2(BigMulPow10(<<1>>, Max0(-e)), Max0(low)), low)

\* a power of two not above 10^adj: 2^low <= 10^adj < 2^(low + 3)
Log2Below(adj) == ((adj * 3321928) \div 1000000) - 1

\* m the digit values without leading zeros: 10^adj <= m * 10^e < 10^(adj + 1)
\* for adj = Len(m) + e - 1
FloatSignificant(sign, m, e) ==
  IF m = <<>> THEN Double(sign, <<>>, 0)
  ELSE IF Len(m) + e - 1 > 309 THEN Inf(sign)
  ELSE IF Len(m) + e - 1 < -325 THEN Double(sign, <<>>, 0)
  ELSE FloatDecimal(sign, BigOfDigits(m), e, Log2Below(Len(m) + e - 1))

\* The double nearest to sign * digits * 10^e (digits a sequence of decimal
\* digits), ties to the even mantissa, as float() rounds: 53 significant bits,
\* fewer below 2^-1022, zero up to 2^-1075, infinite from 2^1024 - 2^970 up.
Float(sign, digits, e) ==
  FloatSignificant(sign, DropLeadingZeros([j \in DOMAIN digits |-> DigitVal(digits[j])]), e)

\* the exponent written by the digits d; an exponent of more than 7 digits
\* stands for 9999999 (the same double for any text under a million characters)
ExponentVal(d) ==
  LET x == [j \in DOMAIN d |-> DigitVal(d[j])]
      n == Len(DropLeadingZeros(x))
  IN IF n > 7 THEN 9999999 ELSE DigitsVal(SubSeq(d, Len(d) - n + 1, Len(d)))

\* float(c) for a cell that is a number or a float literal
FloatOf(c) ==
  IF c.kind # "str" THEN c
  ELSE LET p == FloatText(c.str)
           sign == IF p.neg THEN -1 ELSE 1
       IN IF p.body = txt_nan THEN NaN
          ELSE IF p.body \in {txt_inf, txt_infinity} THEN Inf(sign)
          ELSE Float(sign, OnlyDigits(p.ip) \o OnlyDigits(p.fp),
                     (IF p.exNeg THEN -1 ELSE 1) * ExponentVal(OnlyDigits(p.exDigits))
                       - Len(OnlyDigits(p.fp)))

\* float(r[col]) if col and pd.notna(r[col]) else None
WageFieldRaises(cols, r, col) ==
  Truthy(col) /\ NotNa(CellOf(cols, r, col.str)) /\ FloatRaises(CellOf(cols, r, col.str))

WageField(cols, r, col) ==
  IF Truthy(col) /\ NotNa(CellOf(cols, r, col.str))
    THEN FloatOf(CellOf(cols, r, col.str))
    ELSE None

\* isinstance(t, str) fails: the row is skipped
RowSkipped(cols, tcol, r) == CellOf(cols, r, tcol.str).kind # "str"

RowRaises(cols, tcol, pcol, mcol, r) ==
  /\ ~RowSkipped(cols, tcol, r)
  /\ WageFieldRaises(cols, r, pcol) \/ WageFieldRaises(cols, r, mcol)

\* One iteration of the loop over df.iterrows() that does not raise
load_oews_step(out, cols, tcol, pcol, mcol, r) ==
  IF RowSkipped(cols, tcol, r)
    THEN out
    ELSE DictSet(out, norm(CellOf(cols, r, tcol.str).str),
                 [p25 |-> WageField(cols, r, pcol),
                  median |-> WageField(cols, r, mcol)])

\* The whole call on a dataset: [raised, out]
RECURSIVE load_oews_rows(_, _, _, _, _)
load_oews_rows(cols, tcol, pcol, mcol, rs) ==
  IF rs = <<>> THEN [raised |-> FALSE, out |-> EmptyDict]
  ELSE LET before == load_oews_rows(cols, tcol, pcol, mcol, SubSeq(rs, 1, Len(rs) - 1))
           r == rs[Len(rs)]
       IN IF before.raised \/ RowRaises(cols, tcol, pcol, mcol, r)
            THEN [raised |-> TRUE, out |-> before.out]
            ELSE [raised |-> FALSE,
                  out |-> load_oews_step(before.out, cols, tcol, pcol, mcol, r)]

load_oews(rawcols, rs) ==
  LET cols == NormColumns(rawcols)
  IN load_oews_rows(cols, ResolveTitleCol(cols), ResolveP25Col(cols),
                    ResolveMedCol(cols), rs)

---------------------------------------------------------------------------
(* main: the aggregation loop *)

SearchPrefix == "https://www.bls.gov/ooh/occupation-finder.htm?search="

IsUnreserved(c) ==
  IsAsciiUpper(c) \/ IsLowerLetter(c) \/ IsDigit(c) \/ c \in {"_", ".", "-", "~", "/"}

\* requests.utils.quote on one character (safe = "/")
QuoteChar(c) ==
  IF IsUnreserved(c) THEN <<c>>
  ELSE CASE c = " " -> <<"%","2","0">>
         [] c = "\t" -> <<"%","0","9">>
         [] c = "\n" -> <<"%","0","A">>
         [] c = "\f" -> <<"%","0","C">>
         [] c = "\r" -> <<"%","0","D">>
         [] c = "#" -> <<"%","2","3">>
         [] c = "'" -> <<"%","2","7">>
         [] c = "*" -> <<"%","2","A">>
         [] c = "," -> <<"%","2","C">>
         [] c = ":" -> <<"%","3","A">>
         [] c = "^" -> <<"%","5","E">>
         [] c = GraveAccent -> <<"%","6","0">>
         [] c = UpsilonHook -> <<"%","C","F","%","9","2">>
         [] c = CapitalSigma -> <<"%","C","E","%","A","3">>
         [] c = SmallSigma -> <<"%","C","F","%","8","3">>
         [] c = FinalSigma -> <<"%","C","F","%","8","2">>
         [] c = DottedI -> <<"%","C","4","%","B","0">>
         [] c = CombiningDot -> <<"%","C","C","%","8","7">>

RECURSIVE Quote(_)
Quote(x) == IF x = <<>> THEN <<>> ELSE QuoteChar(Head(x)) \o Quote(Tail(x))

\* f"https://www.bls.gov/ooh/occupation-finder.htm?search={quote(title)}"
SearchUrl(title) == <<SearchPrefix>> \o Quote(title)

DefaultProfile(title) ==
  [title |-> title, summary |-> None, entry_education |-> None, ooh_url |-> None]

DefaultWages == [p25 |-> None, median |-> None]

\* Mutant of CareerRecord: the profile is looked up under the raw title
CareerRecord_RawKey(profiles, wagemap, title) ==
  LET rec == DictGet(profiles, title, DefaultProfile(title))
      w == DictGet(wagemap, title, DefaultWages)
  IN [title |-> rec.title,
      bls |-> [summary |-> rec.summary,
               entry_education |-> rec.entry_education,
               ooh_url |-> PyOr(rec.ooh_url, Str(SearchUrl(rec.title)))],
      pay |-> [starting_proxy_annual |-> w.p25, median_annual |-> w.median],
      education_cost |-> edu_cost(rec.entry_education)]

\* Mutant of CareerRecord: a missing profile leaves the title empty
CareerRecord_NoTitle(profiles, wagemap, title) ==
  LET k == norm(title)
      rec == DictGet(profiles, k, DefaultProfile(<<>>))
      w == DictGet(wagemap, k, DefaultWages)
  IN [title |-> rec.title,
      bls |-> [summary |-> rec.summary,
               entry_education |-> rec.entry_education,
               ooh_url |-> PyOr(rec.ooh_url, Str(SearchUrl(rec.title)))],
      pay |-> [starting_proxy_annual |-> w.p25, median_annual |-> w.median],
      education_cost |-> edu_cost(rec.entry_education)]

\* The dict appended for one target title
CareerRecord(profiles, wagemap, title) ==
  LET k == norm(title)
      rec == DictGet(profiles, k, DefaultProfile(title))
      w == DictGet(wagemap, k, DefaultWages)
  IN [title |-> rec.title,
      bls |-> [summary |-> rec.summary,
               entry_education |-> rec.entry_education,
               ooh_url |-> PyOr(rec.ooh_url, Str(SearchUrl(rec.title)))],
      pay |-> [starting_proxy_annual |-> w.p25, median_annual |-> w.median],
      education_cost |-> edu_cost(rec.entry_education)]

---------------------------------------------------------------------------
(* Inputs *)

NormAlphabet == {"A", " ", "\t", "'", UpsilonHook, CapitalSigma, SmallSigma, DottedI}

EduFragments ==
  {<<"A","s","s","o","c","i","a","t","e">>, <<"B","A","C","H","E","L","O","R">>, <<"M","a","s","t","e","r">>, <<"D","o","c","t","o","r","a","l">>, <<"p","r","o","f","e","s","s","i","o","n","a","l">>,
   <<"P","o","s","t","s","e","c","o","n","d","a","r","y"," ","n","o","n","d","e","g","r","e","e">>, <<"H","i","g","h"," ","s","c","h","o","o","l">>, <<"N","o"," ","f","o","r","m","a","l">>,
   <<"'","s"," ","d","e","g","r","e","e">>, <<" ","o","r"," ">>, <<"m","a","s","t">>, <<"e","r">>}

RECURSIVE Concat(_)
Concat(xs) == IF xs = <<>> THEN <<>> ELSE Head(xs) \o Concat(Tail(xs))

RECURSIVE SeqsUpTo(_, _)
SeqsUpTo(S, n) ==
  IF n = 0 THEN {<<>>}
  ELSE LET shorter == SeqsUpTo(S, n - 1)
       IN shorter \cup {Append(x, e) : x \in shorter, e \in S}

EduInputs == {None} \cup {Str(Concat(fs)) : fs \in SeqsUpTo(EduFragments, MaxFrags)}

Occ(t, su, ed, el, u) ==
  [title |-> t, summary |-> su, education |-> ed, entry_level_education |-> el, url |-> u]

occRN == Occ(Str(<<"R","N">>), Str(<<"a"," ">> \o <<"\n">> \o <<" ","b">>), Str(<<"M","a","s","t","e","r","'","s"," ","d","e","g","r","e","e">>), None, Str(<<" ","u"," ">>))
occRn2 == Occ(Str(<<" ","r","n"," ">>), None, None, Str(<<"B","a","c","h","e","l","o","r","'","s"," "," ","d","e","g","r","e","e">>), None)
occRN3 == Occ(Str(<<"R","N">>), Str(<<"s">>), None, None, None)
occNoTitle == Occ(None, Str(<<"s">>), Str(<<"x">>), None, Str(<<"u">>))
occBlankTitle == Occ(Str(<<" "," ">>), None, None, None, None)
occVet == Occ(Str(<<"V","e","t">>), Str(<<>>), Str(<<" "," ">>), Str(<<"x">>), Str(<<" "," ">>))
occVet2 == Occ(Str(<<"V","e","t"," ">>), Str(<<" "," ">>), Str(<<>>), Str(<<" ","A","s","s","o","c","i","a","t","e">>), Str(<<"v">>))
occWeb == Occ(Str(<<"W","e","b"," "," ","D","e","v",",">>), None, Str(<<"H","i","g","h"," ","S","c","h","o","o","l">>), Str(<<"M","a","s","t","e","r">>), None)

OccPool == {occRN, occRn2, occRN3, occNoTitle, occBlankTitle, occVet, occVet2, occWeb}

DocPool ==
  {<<>>, <<occRN, occVet>>, <<occRN, occRn2, occNoTitle>>, <<occVet2, occVet, occRN3>>,
   <<occWeb, occVet2>>}

colOccTitle == <<"O","c","c","u","p","a","t","i","o","n"," "," ","T","i","t","l","e">>
colOcc == <<"O","C","C">>
colArea == <<"A","r","e","a">>
colP25Exact == <<"A","n","n","u","a","l"," ","2","5","t","h"," ","P","e","r","c","e","n","t","i","l","e">>
colP25Loose == <<"2","5","%"," ","a","n","n","u","a","l">>
colMedExact == <<"A","n","n","u","a","l"," ","M","e","d","i","a","n">>
colMedLoose == <<"M","e","d","i","a","n"," ","a","n","n","u","a","l">>
colMean == <<"A","n","n","u","a","l"," ","m","e","a","n">>

Layouts ==
  {<<colOccTitle, colP25Exact, colMedExact>>,
   <<colOccTitle, colMedLoose, colP25Loose>>,
   <<colOccTitle, colP25Loose, colP25Exact>>,
   <<colOccTitle, colP25Exact, colP25Loose>>,
   <<colOccTitle, colMedLoose, colMedExact>>,
   <<colArea, colOccTitle, colMedExact>>,
   <<colOcc, colP25Exact>>,
   <<colOccTitle, colMean>>}

TitleCells == {Str(<<"R","N">>), Str(<<" ","r","n"," ">>), Str(<<" "," ">>), Num(5)}
P25Cells == {NaN, Num(1), Str(<<"#">>)}
MedCells == {NaN, Num(2)}

\* the cells that occur under a column, by its normalized name
CellsFor(name) ==
  IF Contains(kw_occupation_title, name) THEN TitleCells
  ELSE IF name = <<"o","c","c">> THEN {Str(<<"V","e","t">>), Str(<<"v","e","t">>), NaN, Str(<<>>)}
  ELSE IF name = <<"a","r","e","a">> THEN {Str(<<"M","I">>)}
  ELSE IF Contains(kw_annual_25th_percentile, name) THEN P25Cells \cup {Str(<<"+","1",".","5">>)}
  ELSE IF Contains(kw_25, name) THEN P25Cells
  ELSE IF Contains(kw_median, name) THEN MedCells
  ELSE {Num(3), Str(<<"#">>)}

\* the rows that can occur in a dataset with these columns
RECURSIVE RowsFor(_)
RowsFor(cols) ==
  IF cols = <<>> THEN {<<>>}
  ELSE {Append(r, c) : r \in RowsFor(SubSeq(cols, 1, Len(cols) - 1)),
                       c \in CellsFor(cols[Len(cols)])}

TablePool ==
  {[cols |-> <<colOccTitle, colP25Exact, colMedExact>>,
    rows |-> << <<Str(<<"R","N">>), Num(1), Num(2)>>, <<Str(<<"C","o","o","k">>), NaN, Num(2)>>,
                <<Str(<<"V","E","T">>), Str(<<" ","7",".","5">>), NaN>> >>],
   [cols |-> <<colOccTitle, colP25Exact, colMedExact>>,
    rows |-> << <<Str(<<"R","N">>), Str(<<"#">>), Num(2)>> >>],
   [cols |-> <<colOcc, colMedLoose>>,
    rows |-> << <<Str(<<" ","r","n">>), Num(2)>>, <<Num(5), Num(2)>>, <<Str(<<"W","e","b"," ","D","e","v",",">>), NaN>> >>],
   [cols |-> <<colOccTitle, colMean>>, rows |-> <<>>]}

TargetPool == {<<"R","N">>, <<" ","R","n">>, <<"V","e","t">>, <<"C","o","o","k">>, <<"W","e","b"," ","D","e","v",",">>, <<"N","o"," ","S","u","c","h"," ","J","o","b">>}

---------------------------------------------------------------------------
(* State machine *)

\* ---- norm ----

InitNorm ==
  /\ mode = "norm" /\ pc = "call"
  /\ s \in StringsUpTo(NormAlphabet, MaxLen)
  /\ key = <<>> /\ key2 = <<>>
  /\ entry_edu = None /\ cost = NoCost
  /\ occs = <<>> /\ ooh = EmptyDict
  /\ columns = <<>> /\ title_col = None /\ p25_col = None /\ med_col = None
  /\ rows = <<>> /\ wages = EmptyDict
  /\ raised = FALSE
  /\ targets = <<>> /\ careers = <<>>

\* key = norm(s)
NormCall ==
  /\ mode = "norm" /\ pc = "call"
  /\ key' = norm(s)
  /\ pc' = "normed"
  /\ UNCHANGED <<mode, s, key2, entry_edu, cost, occs, ooh, columns, title_col,
                 p25_col, med_col, rows, wages, raised, targets, careers>>

\* key2 = norm(key)
NormKey ==
  /\ mode = "norm" /\ pc \in {"normed", "varied", "varied_other"}
  /\ key2' = norm(key)
  /\ pc' = "renormed"
  /\ UNCHANGED <<mode, s, key, entry_edu, cost, occs, ooh, columns, title_col,
                 p25_col, med_col, rows, wages, raised, targets, careers>>

\* the same ASCII letter in the other case
SwapCase(c) ==
  IF IsAsciiUpper(c) THEN LowerChar(c)
  ELSE IF IsLowerLetter(c)
    THEN UpperLetters[CHOOSE j \in DOMAIN LowerLetters : LowerLetters[j] = c]
    ELSE c

\* the same Greek letter sigma in the other case (str.swapcase of one character)
SwapCaseSigma(c) ==
  IF c = CapitalSigma THEN SmallSigma
  ELSE IF c \in {SmallSigma, FinalSigma} THEN CapitalSigma
  ELSE c

\* norm is called on s with the case of one ASCII letter changed
NormCaseVariant ==
  /\ mode = "norm" /\ pc \in {"normed", "varied", "varied_other"}
  /\ \E j \in DOMAIN s :
       /\ SwapCase(s[j]) # s[j]
       /\ s' = [s EXCEPT ![j] = SwapCase(s[j])]
  /\ key' = norm(s')
  /\ pc' = "varied"
  /\ UNCHANGED <<mode, key2, entry_edu, cost, occs, ooh, columns, title_col,
                 p25_col, med_col, rows, wages, raised, targets, careers>>

\* norm is called on s with the case of one letter sigma changed
NormSigmaVariant ==
  /\ mode = "norm" /\ pc \in {"normed", "varied", "varied_other"}
  /\ \E j \in DOMAIN s :
       /\ SwapCaseSigma(s[j]) # s[j]
       /\ s' = [s EXCEPT ![j] = SwapCaseSigma(s[j])]
  /\ key' = norm(s')
  /\ pc' = "varied_other"
  /\ UNCHANGED <<mode, key2, entry_edu, cost, occs, ooh, columns, title_col,
                 p25_col, med_col, rows, wages, raised, targets, careers>>

\* norm is called on s with one whitespace character replaced by another,
\* or with one more whitespace character at an end or next to whitespace
NormSpaceVariant ==
  /\ mode = "norm" /\ pc \in {"normed", "varied", "varied_other"}
  /\ \E w \in {c \in NormAlphabet : IsSpace(c)} :
       \/ \E j \in DOMAIN s :
            /\ IsSpace(s[j]) /\ s[j] # w
            /\ s' = [s EXCEPT ![j] = w]
       \/ \E j \in 0..Len(s) :
            /\ Len(s) < MaxLen
            /\ IF j = 0 \/ j = Len(s) THEN TRUE ELSE IsSpace(s[j]) \/ IsSpace(s[j + 1])
            /\ s' = SubSeq(s, 1, j) \o <<w>> \o SubSeq(s, j + 1, Len(s))
  /\ key' = norm(s')
  /\ pc' = "varied"
  /\ UNCHANGED <<mode, key2, entry_edu, cost, occs, ooh, columns, title_col,
                 p25_col, med_col, rows, wages, raised, targets, careers>>

NextNorm == NormCall \/ NormKey \/ NormCaseVariant \/ NormSigmaVariant \/ NormSpaceVariant

SpecNorm == InitNorm /\ [][NextNorm]_vars

\* ---- edu_cost ----

InitEdu ==
  /\ mode = "edu" /\ pc = "call"
  /\ entry_edu \in EduInputs
  /\ cost = NoCost
  /\ s = <<>> /\ key = <<>> /\ key2 = <<>>
  /\ occs = <<>> /\ ooh = EmptyDict
  /\ columns = <<>> /\ title_col = None /\ p25_col = None /\ med_col = None
  /\ rows = <<>> /\ wages = EmptyDict
  /\ raised = FALSE
  /\ targets = <<>> /\ careers = <<>>

\* cost = edu_cost(entry_edu)
EduCostCall ==
  /\ mode = "edu" /\ pc = "call"
  /\ cost' = edu_cost(entry_edu)
  /\ pc' = "done"
  /\ UNCHANGED <<mode, s, key, key2, entry_edu, occs, ooh, columns, title_col,
                 p25_col, med_col, rows, wages, raised, targets, careers>>

NextEdu == EduCostCall

SpecEdu == InitEdu /\ [][NextEdu]_vars

---------------------------------------------------------------------------
(* Claims about norm, checked under SpecNorm *)

\* a call of norm has returned key for s
NormReturned == mode = "norm" /\ pc \in {"normed", "varied", "varied_other", "renormed"}

\* The key keeps the non-whitespace characters of the lower-cased string and
\* has the canonical shape: no whitespace other than the space, no two
\* adjacent whitespace characters, no whitespace at either end; and
\* normalizing the key again returns the key.
KeyShape ==
  NormReturned =>
    /\ SelectSeq(key, LAMBDA c : ~IsSpace(c)) = SelectSeq(Lower(s), LAMBDA c : ~IsSpace(c))
    /\ \A j \in DOMAIN key : IsSpace(key[j]) => key[j] = " "
    /\ \A j \in 1..(Len(key) - 1) : ~(IsSpace(key[j]) /\ IsSpace(key[j + 1]))
    /\ key # <<>> => (~IsSpace(key[1]) /\ ~IsSpace(key[Len(key)]))
    /\ pc = "renormed" => key2 = key

\* the key contains no upper-case letter
NoUpperCase ==
  NormReturned => \A j \in DOMAIN key : ~IsUpper(key[j])

\* the key contains no letter that has a lower-case form other than itself
NoLetterWithLowerForm ==
  NormReturned => \A j \in DOMAIN key : Lower(<<key[j]>>) = <<key[j]>>

\* A call on a string that differs from the previous one in the case of a
\* letter or in the amount or kind of whitespace returns the same key.
SameKeyForVariant ==
  (mode = "norm" /\ pc' \in {"varied", "varied_other"}) => key' = key

\* A call on a string that differs from the previous one in the case of an
\* ASCII letter or in the amount or kind of whitespace returns the same key.
SameKeyForAsciiVariant ==
  (mode = "norm" /\ pc' = "varied") => key' = key

\* C5 as stated: norm is idempotent, its result has no upper-case letter, only
\* single spaces as whitespace and none at the ends, it is defined for every
\* string, and strings that differ only in case or whitespace get the same key.
C5_NormCanonicalNoUpper == [](KeyShape /\ NoUpperCase) /\ [][SameKeyForVariant]_vars

\* C5 amended: as above, but the result has no letter that has a lower-case
\* form of its own (an upper-case letter without one stays in the key), and
\* the strings that get the same key are those that differ only in the case of
\* ASCII letters or in whitespace: a capital sigma becomes the final or the
\* medial small sigma by its place in the word, a small sigma stays as written.
C5_NormCanonical == [](KeyShape /\ NoLetterWithLowerForm) /\ [][SameKeyForAsciiVariant]_vars

\* C5 witness: the string A, capital sigma, tab, upsilon with hook has been
\* normalized twice; the key has a instead of A, the final small sigma (the
\* capital ends its word), a space for the tab, and keeps the upper-case
\* letter that has no lower-case form.
C5_Witness ==
  /\ mode = "norm" /\ pc = "renormed"
  /\ s = <<"A", CapitalSigma, "\t", UpsilonHook>>
  /\ key = <<"a", FinalSigma, " ", UpsilonHook>>
  /\ key2 = key

---------------------------------------------------------------------------
(* Claims about edu_cost, checked under SpecEdu *)

EduRules ==
  << [kws |-> {kw_associate}, years |-> 2, fees |-> 2 * MI_PUBLIC_2YR,
      note |-> "Community college estimate (tuition+fees only)."],
     [kws |-> {kw_bachelor}, years |-> 4, fees |-> 4 * MI_PUBLIC_4YR,
      note |-> "Public 4-year in-state estimate (tuition+fees only)."],
     [kws |-> {kw_master}, years |-> 6, fees |-> 6 * MI_PUBLIC_4YR,
      note |-> "Very rough estimate (tuition+fees only)."],
     [kws |-> {kw_doctoral, kw_professional}, years |-> 8, fees |-> 8 * MI_PUBLIC_4YR,
      note |-> "Very rough estimate (tuition+fees only)."],
     [kws |-> {kw_postsecondary}, years |-> 1, fees |-> 1 * MI_PUBLIC_2YR,
      note |-> "Certificate/trade estimate (tuition+fees only)."],
     [kws |-> {kw_high_school, kw_no_formal}, years |-> 0, fees |-> 0,
      note |-> "No college required; training may still cost money."] >>

\* the rules whose keyword occurs in the lower-cased input
EduMatching(v) ==
  IF v.kind # "str" THEN {}
  ELSE {r \in DOMAIN EduRules : \E k \in EduRules[r].kws : Contains(k, Lower(v.str))}

\* C3: the result is that of the earliest rule, in the order associate,
\* bachelor, master, doctoral/professional, postsecondary nondegree, high
\* school/no formal, whose keyword occurs in the lower-cased input, and absent
\* when no rule matches; bachelor together with master gives 4 years.
C3_FirstMatchWins ==
  (mode = "edu" /\ pc = "done") =>
    /\ IF EduMatching(entry_edu) = {}
         THEN cost = NoCost
         ELSE LET r == CHOOSE x \in EduMatching(entry_edu) :
                         \A y \in EduMatching(entry_edu) : x <= y
              IN cost = Cost(EduRules[r].years, EduRules[r].fees, EduRules[r].note)
    /\ {2, 3} \subseteq EduMatching(entry_edu) => (1 \in EduMatching(entry_edu) \/ cost.years = 4)

\* C3 witness: an input containing both "bachelor" and "master" (in a
\* different case) and not "associate" has been estimated at 4 years.
C3_Witness ==
  /\ mode = "edu" /\ pc = "done"
  /\ {2, 3} \subseteq EduMatching(entry_edu)
  /\ 1 \notin EduMatching(entry_edu)
  /\ ~Contains(kw_bachelor, entry_edu.str)
  /\ cost.kind = "cost" /\ cost.years = 4

---------------------------------------------------------------------------
(* State machine of the extractors *)

InitExtract ==
  /\ mode \in {"ooh", "oews"}
  /\ pc = IF mode = "ooh" THEN "loop" ELSE "read"
  /\ columns \in IF mode = "ooh" THEN {<<>>} ELSE Layouts
  /\ s = <<>> /\ key = <<>> /\ key2 = <<>>
  /\ entry_edu = None /\ cost = NoCost
  /\ occs = <<>> /\ ooh = EmptyDict
  /\ title_col = None /\ p25_col = None /\ med_col = None
  /\ rows = <<>> /\ wages = EmptyDict
  /\ raised = FALSE
  /\ targets = <<>> /\ careers = <<>>

\* parse_ooh: one iteration of the for loop, on the next occupation element
OohElement ==
  /\ mode = "ooh" /\ pc = "loop"
  /\ Len(occs) < MaxOccs
  /\ \E occ \in OccPool :
       /\ occs' = Append(occs, occ)
       /\ ooh' = parse_ooh_step(ooh, occ)
  /\ UNCHANGED <<mode, pc, s, key, key2, entry_edu, cost, columns, title_col,
                 p25_col, med_col, rows, wages, raised, targets, careers>>

\* parse_ooh: the loop is over, return out
OohReturn ==
  /\ mode = "ooh" /\ pc = "loop"
  /\ pc' = "returned"
  /\ UNCHANGED <<mode, s, key, key2, entry_edu, cost, occs, ooh, columns, title_col,
                 p25_col, med_col, rows, wages, raised, targets, careers>>

\* load_oews: normalize the column names and resolve the three columns
OewsResolve ==
  /\ mode = "oews" /\ pc = "read"
  /\ columns' = NormColumns(columns)
  /\ title_col' = ResolveTitleCol(columns')
  /\ p25_col' = ResolveP25Col(columns')
  /\ med_col' = ResolveMedCol(columns')
  /\ pc' = "loop"
  /\ UNCHANGED <<mode, s, key, key2, entry_edu, cost, occs, ooh,
                 rows, wages, raised, targets, careers>>

\* load_oews: one iteration of the for loop, on the next row; float() of a
\* cell may raise, which ends the call
OewsRow ==
  /\ mode = "oews" /\ pc = "loop"
  /\ Len(rows) < MaxRows
  /\ \E r \in RowsFor(columns) :
       /\ rows' = Append(rows, r)
       /\ IF RowRaises(columns, title_col, p25_col, med_col, r)
            THEN /\ raised' = TRUE
                 /\ pc' = "raised"
                 /\ wages' = wages
            ELSE /\ raised' = FALSE
                 /\ pc' = "loop"
                 /\ wages' = load_oews_step(wages, columns, title_col, p25_col, med_col, r)
  /\ UNCHANGED <<mode, s, key, key2, entry_edu, cost, occs, ooh, columns, title_col,
                 p25_col, med_col, targets, careers>>

\* load_oews: the loop is over, return out
OewsReturn ==
  /\ mode = "oews" /\ pc = "loop"
  /\ pc' = "returned"
  /\ UNCHANGED <<mode, s, key, key2, entry_edu, cost, occs, ooh, columns, title_col,
                 p25_col, med_col, rows, wages, raised, targets, careers>>

NextExtract == OohElement \/ OohReturn \/ OewsResolve \/ OewsRow \/ OewsReturn

SpecExtract == InitExtract /\ [][NextExtract]_vars

---------------------------------------------------------------------------
(* State machine of main *)

InitMain ==
  /\ mode = "main" /\ pc = "ooh"
  /\ targets \in SeqsUpTo(TargetPool, MaxTargets)
  /\ careers = <<>>
  /\ s = <<>> /\ key = <<>> /\ key2 = <<>>
  /\ entry_edu = None /\ cost = NoCost
  /\ occs = <<>> /\ ooh = EmptyDict
  /\ columns = <<>> /\ title_col = None /\ p25_col = None /\ med_col = None
  /\ rows = <<>> /\ wages = EmptyDict
  /\ raised = FALSE

\* ooh = parse_ooh(xml) on the downloaded document
MainParseOoh ==
  /\ mode = "main" /\ pc = "ooh"
  /\ \E doc \in DocPool :
       /\ occs' = doc
       /\ ooh' = parse_ooh(doc)
  /\ pc' = "oews"
  /\ UNCHANGED <<s, mode, key, key2, entry_edu, cost, columns, title_col,
                 p25_col, med_col, rows, wages, raised, targets, careers>>

\* wages = load_oews(xls_url) on the downloaded dataset; an exception ends main
MainLoadOews ==
  /\ mode = "main" /\ pc = "oews"
  /\ \E tab \in TablePool :
       LET cols == NormColumns(tab.cols)
           res == load_oews(tab.cols, tab.rows)
       IN /\ columns' = cols
          /\ title_col' = ResolveTitleCol(cols)
          /\ p25_col' = ResolveP25Col(cols)
          /\ med_col' = ResolveMedCol(cols)
          /\ rows' = tab.rows
          /\ raised' = res.raised
          /\ wages' = res.out
          /\ pc' = IF res.raised THEN "raised" ELSE "agg"
  /\ UNCHANGED <<mode, s, key, key2, entry_edu, cost, occs, ooh, targets, careers>>

\* Mutant of AppendCareer: the record is put in front
AppendCareer_Front(list, rec) == <<rec>> \o list

\* careers.append(rec)
AppendCareer(list, rec) == Append(list, rec)

\* one iteration of the loop over the target titles
MainAggregate ==
  /\ mode = "main" /\ pc = "agg"
  /\ Len(careers) < Len(targets)
  /\ careers' = AppendCareer(careers, CareerRecord(ooh, wages, targets[Len(careers) + 1]))
  /\ UNCHANGED <<mode, pc, s, key, key2, entry_edu, cost, occs, ooh, columns, title_col,
                 p25_col, med_col, rows, wages, raised, targets>>

\* the loop is over: careers is written out
MainWrite ==
  /\ mode = "main" /\ pc = "agg"
  /\ Len(careers) = Len(targets)
  /\ pc' = "done"
  /\ UNCHANGED <<mode, s, key, key2, entry_edu, cost, occs, ooh, columns, title_col,
                 p25_col, med_col, rows, wages, raised, targets, careers>>

NextMain == MainParseOoh \/ MainLoadOews \/ MainAggregate \/ MainWrite

SpecMain == InitMain /\ [][NextMain]_vars

Init == InitNorm \/ InitEdu \/ InitExtract \/ InitMain

Next == NextNorm \/ NextEdu \/ NextExtract \/ NextMain

Spec == Init /\ [][Next]_vars

---------------------------------------------------------------------------
(* Claims about the extractors, checked under SpecExtract *)

\* a profile entry whose title is missing or blank
OohTitleBlank(occ) == occ.title.kind # "str" \/ Strip(occ.title.str) = <<>>

\* the title cell of a row
TitleCell(r) == CellOf(columns, r, title_col.str)

\* the rows whose iteration completed: all but the one that raised
RowsWritten == IF raised THEN SubSeq(rows, 1, Len(rows) - 1) ELSE rows

MaxOf(S) == CHOOSE x \in S : \A y \in S : y <= x

\* C9: in both extractors the mapping has exactly the normalized titles of
\* the entries that were not skipped as its keys, the value under a key is the
\* record built from the last such entry with that key, and a row raises only
\* because of a text cell under a wage column, never because its key collides.
C9_LastWriteWins ==
  /\ mode = "ooh" =>
       LET kept == {j \in DOMAIN occs : ~OohTitleBlank(occs[j])}
       IN /\ DOMAIN ooh = {norm(occs[j].title.str) : j \in kept}
          /\ \A k \in DOMAIN ooh :
               LET last == MaxOf({j \in kept : norm(occs[j].title.str) = k})
               IN ooh[k] = parse_ooh_step(EmptyDict, occs[last])[k]
  /\ (mode = "oews" /\ pc # "read") =>
       LET kept == {j \in DOMAIN RowsWritten : TitleCell(rows[j]).kind = "str"}
       IN /\ DOMAIN wages = {norm(TitleCell(rows[j]).str) : j \in kept}
          /\ \A k \in DOMAIN wages :
               LET last == MaxOf({j \in kept : norm(TitleCell(rows[j]).str) = k})
               IN wages[k] = load_oews_step(EmptyDict, columns, title_col, p25_col,
                                            med_col, rows[last])[k]
          /\ raised =>
               \E c \in {p25_col, med_col} :
                 Truthy(c) /\ CellOf(columns, rows[Len(rows)], c.str).kind = "str"

\* C9 witness: parse_ooh returned after two entries whose titles differ but
\* normalize to the same key; the one entry kept is built from the second.
C9_Witness ==
  /\ mode = "ooh" /\ pc = "returned" /\ Len(occs) = 2
  /\ ~OohTitleBlank(occs[1]) /\ ~OohTitleBlank(occs[2])
  /\ occs[1].title # occs[2].title
  /\ norm(occs[1].title.str) = norm(occs[2].title.str)
  /\ Cardinality(DOMAIN ooh) = 1
  /\ ooh[norm(occs[2].title.str)].title = Strip(occs[2].title.str)
  /\ ooh[norm(occs[2].title.str)].title # Strip(occs[1].title.str)

IsP25Exact(c) == Contains(kw_annual_25th_percentile, c)
IsP25Loose(c) == Contains(kw_25, c) /\ Contains(kw_annual, c)
IsMedExact(c) == Contains(kw_annual_median, c)
IsMedLoose(c) == Contains(kw_median, c) /\ Contains(kw_annual, c)

\* first column with the exact phrase if any column has it, else first
\* column matching the loose pattern, else None
TwoStage(cols, exact, loose) ==
  IF exact # {} THEN Str(cols[CHOOSE j \in exact : \A m \in exact : j <= m])
  ELSE IF loose # {} THEN Str(cols[CHOOSE j \in loose : \A m \in loose : j <= m])
  ELSE None

\* C6: the 25th percentile column and the median column are resolved by a
\* two-stage chain: the exact phrase wins whenever some column contains it,
\* even if a column matching only the loose pattern comes earlier.
C6_TwoStageFallback ==
  (mode = "oews" /\ pc # "read") =>
    /\ p25_col = TwoStage(columns, {j \in DOMAIN columns : IsP25Exact(columns[j])},
                                    {j \in DOMAIN columns : IsP25Loose(columns[j])})
    /\ med_col = TwoStage(columns, {j \in DOMAIN columns : IsMedExact(columns[j])},
                                    {j \in DOMAIN columns : IsMedLoose(columns[j])})

\* a wage cell that is missing or is text that is not a decimal numeral
NotANumber(c) ==
  \/ c.kind = "nan"
  \/ c.kind = "str" /\ ~IsFloatNumber(FloatText(c.str))

\* C7: no entry, row or cell makes an extractor raise; a row with a text
\* title is stored, and a wage cell that is missing or not a number gives
\* None for its field.
C7_OnlyStructuralFailures ==
  /\ mode \in {"ooh", "oews"} => ~raised
  /\ (mode = "oews" /\ rows # <<>>) =>
       LET r == rows[Len(rows)]
           k == norm(TitleCell(r).str)
       IN TitleCell(r).kind = "str" =>
            /\ k \in DOMAIN wages
            /\ (Truthy(p25_col) /\ NotANumber(CellOf(columns, r, p25_col.str)))
                 => wages[k].p25 = None
            /\ (Truthy(med_col) /\ NotANumber(CellOf(columns, r, med_col.str)))
                 => wages[k].median = None

\* C8: when no column resolves as the median column load_oews does not raise
\* and every record has median None; likewise for the 25th percentile.
C8_MissingColumnGivesNull ==
  (mode = "oews" /\ pc # "read") =>
    /\ med_col = None => (~raised /\ \A k \in DOMAIN wages : wages[k].median = None)
    /\ p25_col = None => (~raised /\ \A k \in DOMAIN wages : wages[k].p25 = None)

\* C10: a row whose title cell is missing, not text, empty or only
\* whitespace adds no entry: the empty key is never present and every key is
\* the normalized non-blank text title of some row.
C10_BlankTitleRowsSkipped ==
  (mode = "oews" /\ pc # "read") =>
    /\ <<>> \notin DOMAIN wages
    /\ \A k \in DOMAIN wages :
         \E j \in DOMAIN rows :
           /\ TitleCell(rows[j]).kind = "str"
           /\ Strip(TitleCell(rows[j]).str) # <<>>
           /\ norm(TitleCell(rows[j]).str) = k

---------------------------------------------------------------------------
(* Claims about the aggregation loop, checked under SpecMain *)

\* C1: the loop builds one record per target title, in target order: record
\* i carries a title with the key of target i, and at the end there are as
\* many records as targets.
C1_OneRecordPerTargetInOrder ==
  mode = "main" =>
    /\ Len(careers) <= Len(targets)
    /\ \A j \in DOMAIN careers : norm(careers[j].title) = norm(targets[j])
    /\ pc = "done" => Len(careers) = Len(targets)

\* C1 witness: the loop ended on two targets with different keys, the first
\* in neither mapping, the second with a profile; both have their record.
C1_Witness ==
  /\ mode = "main" /\ pc = "done" /\ Len(targets) = 2 /\ Len(careers) = 2
  /\ norm(targets[1]) # norm(targets[2])
  /\ norm(targets[1]) \notin DOMAIN ooh /\ norm(targets[1]) \notin DOMAIN wages
  /\ norm(targets[2]) \in DOMAIN ooh
  /\ careers[1].title = targets[1]
  /\ careers[2].title = ooh[norm(targets[2])].title

\* the record of target j carries the profile and wages stored under its key,
\* its URL being the profile's own unless that is one of the values in absent,
\* and then the search URL for the profile's title
JoinedRecord(j, absent) ==
  LET k == norm(targets[j])
      c == careers[j]
  IN (k \in DOMAIN ooh /\ k \in DOMAIN wages) =>
       /\ c.title = ooh[k].title
       /\ c.bls.summary = ooh[k].summary
       /\ c.bls.entry_education = ooh[k].entry_education
       /\ c.bls.ooh_url = IF ooh[k].ooh_url \in absent
                             THEN Str(SearchUrl(ooh[k].title))
                             ELSE ooh[k].ooh_url
       /\ c.pay.starting_proxy_annual = wages[k].p25
       /\ c.pay.median_annual = wages[k].median
       /\ c.education_cost = edu_cost(ooh[k].entry_education)
       /\ \A m \in DOMAIN careers : norm(targets[m]) = k => careers[m] = c

\* C2 as stated: a target whose key is in both mappings gets the joined
\* record, its URL being the profile's own URL unless that URL is None.
C2_JoinedUrlUnlessNull ==
  mode = "main" => \A j \in DOMAIN careers : JoinedRecord(j, {None})

\* C2 amended: a target whose key is in both mappings gets the joined record,
\* its URL being the profile's own URL unless that URL is None or the empty
\* string, in which case it is the search URL for the profile's title; targets
\* with the same key get the same record.
C2_JoinedUrlUnlessNullOrEmpty ==
  mode = "main" => \A j \in DOMAIN careers : JoinedRecord(j, {None, Str(<<>>)})

\* C2 witness: a target in both mappings whose profile URL is the empty
\* string got the search URL, and a target spelled unlike its profile's title
\* got that profile.
C2_Witness ==
  /\ mode = "main" /\ pc = "done"
  /\ \E j \in DOMAIN careers :
       LET k == norm(targets[j])
       IN /\ k \in DOMAIN ooh /\ k \in DOMAIN wages
          /\ ooh[k].ooh_url = Str(<<>>)
          /\ careers[j].bls.ooh_url = Str(<<SearchPrefix>> \o ooh[k].title)
          /\ careers[j].pay.starting_proxy_annual = Double(1, <<1, 1, 1, 1>>, -1)
  /\ \E j \in DOMAIN careers :
       LET k == norm(targets[j])
       IN /\ k \in DOMAIN ooh /\ k \in DOMAIN wages
          /\ targets[j] # ooh[k].title
          /\ careers[j].title = ooh[k].title

\* C4: a target in neither mapping gets title = the target unchanged, None
\* for summary and education, the search URL for the target, None for both
\* wages and no education cost, without an error; a target missing from one
\* mapping gets the defaults of that side and the data of the other.
C4_LookupMissDefaults ==
  mode = "main" =>
    /\ pc \in {"agg", "done"} => ~raised
    /\ \A j \in DOMAIN careers :
         LET k == norm(targets[j])
             c == careers[j]
         IN /\ k \notin DOMAIN ooh =>
                 /\ c.title = targets[j]
                 /\ c.bls.summary = None
                 /\ c.bls.entry_education = None
                 /\ c.bls.ooh_url = Str(SearchUrl(targets[j]))
                 /\ c.education_cost = NoCost
            /\ k \notin DOMAIN wages =>
                 /\ c.pay.starting_proxy_annual = None
                 /\ c.pay.median_annual = None
            /\ k \in DOMAIN ooh =>
                 /\ c.title = ooh[k].title
                 /\ c.bls.summary = ooh[k].summary
                 /\ c.bls.entry_education = ooh[k].entry_education
            /\ k \in DOMAIN wages =>
                 /\ c.pay.starting_proxy_annual = wages[k].p25
                 /\ c.pay.median_annual = wages[k].median

\* C4 witness: the target "Web Dev," is in neither mapping and its record is
\* the default one with the percent-encoded search URL; another target is
\* missing from the profiles only and keeps its wages.
C4_Witness ==
  /\ mode = "main" /\ pc = "done"
  /\ \E j \in DOMAIN careers :
       /\ targets[j] = <<"W","e","b"," ","D","e","v",",">>
       /\ norm(targets[j]) \notin DOMAIN ooh /\ norm(targets[j]) \notin DOMAIN wages
       /\ careers[j] = [title |-> <<"W","e","b"," ","D","e","v",",">>,
                        bls |-> [summary |-> None, entry_education |-> None,
                                 ooh_url |-> Str(<<SearchPrefix>> \o <<"W","e","b","%","2","0","D","e","v","%","2","C">>)],
                        pay |-> [starting_proxy_annual |-> None, median_annual |-> None],
                        education_cost |-> NoCost]
  /\ \E j \in DOMAIN careers :
       /\ norm(targets[j]) \notin DOMAIN ooh /\ norm(targets[j]) \in DOMAIN wages
       /\ careers[j].pay.median_annual = Num(2)
       /\ careers[j].bls.summary = None

====
